---- MODULE Spec2Model ----
(***************************************************************************)
(* Certificate Lookup Service (src/backend.py): three read-only handlers   *)
(* (search_addresses, get_rating, health_check) over one shared DuckDB     *)
(* connection.                                                             *)
(*                                                                         *)
(* Strings are sequences of one-character strings.  A nullable database    *)
(* value / Python Optional is a sequence of length 0 (NULL / None) or 1.   *)
(***************************************************************************)
EXTENDS Integers, Sequences, FiniteSets, TLC

VARIABLES
    certs,      \* relation certificates_deduped: set of rows
    recs,       \* relation certificates_deduped_recommendations: set of rows
    nullOrder,  \* the database's default_null_order setting
    reachable,  \* TRUE iff queries on the connection succeed
    request,    \* the request being served (sequential service)
    response,   \* its response
    queryLog,   \* the queries that request executed, in order
    recRows,    \* the rows rec_results held while building that response
    raw,        \* normalisation: the raw postcode parameter
    key,        \* normalisation: the normalised key
    phase,      \* normalisation: "in" before, "out" after normalising
    conn,       \* concurrent service: the connection's pending result set
    threads     \* concurrent service: per request thread, its position and locals

vars == <<certs, recs, nullOrder, reachable, request, response, queryLog,
          recRows, raw, key, phase, conn, threads>>

storeVars == <<certs, recs, nullOrder, reachable>>
seqVars   == <<request, response, queryLog, recRows>>
normVars  == <<raw, key, phase>>
concVars  == <<conn, threads>>

-----------------------------------------------------------------------------
(* Bounds *)

MaxLen == 4      \* longest raw postcode string fed to the normalisation
MaxRecs == 3     \* most rows in the recommendations relation
MaxCerts == 4    \* most rows in the certificates relation
MaxThreads == 2  \* request threads the transport runs at once

-----------------------------------------------------------------------------
(* Characters and Python str methods *)

Null == <<>>
Some(v) == <<v>>

Alphabet == {"a", "A", "1", " ", "\t"}

\* str.strip() with no argument strips Unicode whitespace
Whitespace == {" ", "\t", "\n", "\r"}

Digits == {"0", "1", "2", "3", "4", "5", "6", "7", "8", "9"}

\* code point of a character (binary collation, digit value)
Ord(c) ==
    CASE c = "\t" -> 9  [] c = "\n" -> 10 [] c = "\r" -> 13 [] c = " " -> 32
      [] c = "0" -> 48 [] c = "1" -> 49 [] c = "2" -> 50 [] c = "3" -> 51
      [] c = "4" -> 52 [] c = "5" -> 53 [] c = "6" -> 54 [] c = "7" -> 55
      [] c = "8" -> 56 [] c = "9" -> 57
      [] c = "A" -> 65 [] c = "B" -> 66 [] c = "F" -> 70 [] c = "G" -> 71
      [] c = "a" -> 97 [] c = "b" -> 98 [] c = "f" -> 102

UpperChar(c) ==
    CASE c = "a" -> "A" [] c = "b" -> "B" [] c = "f" -> "F" [] OTHER -> c

RECURSIVE LStrip(_)
LStrip(s) ==
    IF s # <<>> /\ Head(s) \in Whitespace THEN LStrip(Tail(s)) ELSE s

RECURSIVE RStrip(_)
RStrip(s) ==
    IF s # <<>> /\ s[Len(s)] \in Whitespace
    THEN RStrip(SubSeq(s, 1, Len(s) - 1))
    ELSE s

\* s.strip()
Strip(s) == RStrip(LStrip(s))

\* s.upper()
Upper(s) == [i \in 1..Len(s) |-> UpperChar(s[i])]

IsNotSpace(c) == c # " "

RECURSIVE DropFirstSpace(_)
DropFirstSpace(s) ==
    IF s = <<>> THEN s
    ELSE IF Head(s) = " " THEN Tail(s)
    ELSE <<Head(s)>> \o DropFirstSpace(Tail(s))

\* s.replace(' ', '', 1): only the first occurrence
ReplaceFirstSpace(s) == DropFirstSpace(s)

\* s.replace(' ', '')
ReplaceSpaces(s) == SelectSeq(s, IsNotSpace)

\* .strip().upper().replace(' ', '')
NormalizeFirstSpaceOnly(s) == ReplaceFirstSpace(Upper(Strip(s)))

NormalizePostcode(s) == ReplaceSpaces(Upper(Strip(s)))

\* all strings over Alphabet of length at most n
StringsUpTo(n) == UNION {[1..m -> Alphabet] : m \in 0..n}

-----------------------------------------------------------------------------
(* Normalisation as a pure function: raw -> key, and the key fed back *)

NoRequest == [op |-> "none"]
NoResponse == [status |-> 0]

IdleStore ==
    /\ certs = {}
    /\ recs = {}
    /\ nullOrder = "NULLS_LAST"
    /\ reachable = TRUE

IdleSeq ==
    /\ request = NoRequest
    /\ response = NoResponse
    /\ queryLog = <<>>
    /\ recRows = <<>>

IdleNorm ==
    /\ raw = <<>>
    /\ key = <<>>
    /\ phase = "in"

NoResult == [rows |-> <<>>, owner |-> 0, query |-> "none"]

IdleConc ==
    /\ conn = NoResult
    /\ threads = <<>>

InitNorm ==
    /\ IdleStore /\ IdleSeq /\ IdleConc
    /\ raw \in StringsUpTo(MaxLen)
    /\ key = <<>>
    /\ phase = "in"

Normalize ==
    /\ phase = "in"
    /\ key' = NormalizePostcode(raw)
    /\ phase' = "out"
    /\ UNCHANGED <<raw, storeVars, seqVars, concVars>>

\* a response's 'postcode' field is sent back as the next query's postcode
FeedBack ==
    /\ phase = "out"
    /\ raw' = key
    /\ phase' = "in"
    /\ UNCHANGED <<key, storeVars, seqVars, concVars>>

NextNorm == Normalize \/ FeedBack

SpecNorm == InitNorm /\ [][NextNorm]_vars

-----------------------------------------------------------------------------
(* The read-only store *)

P1 == <<"A", "1">>
P2 == <<"B", "1">>

\* (CURRENT_ENERGY_RATING, POTENTIAL_ENERGY_RATING, CURRENT_ENERGY_EFFICIENCY,
\*  POTENTIAL_ENERGY_EFFICIENCY, LODGEMENT_DATE)
Graded == <<Some("C"), Some("B"), Some(69), Some(81), Some("2020-01-31")>>
Ungraded == <<Null, Null, Null, Null, Null>>

Cert(p, a, cols) == [Postcode |-> p, Address |-> a, Cols |-> cols]

AddressPool ==
    { <<"1">>, <<"2">>, <<"1", "0">>, <<"0", "2">>, <<"2", "A">>, <<"F">>, <<"G">> }

CertRowPool ==
    {Cert(P1, a, Graded) : a \in AddressPool}
        \cup {Cert(P1, <<"1">>, Ungraded), Cert(P2, <<"1">>, Graded)}

RatingCertPool ==
    {Cert(P1, <<"1">>, Graded), Cert(P1, <<"1">>, Ungraded), Cert(P1, <<"2">>, Graded)}

\* the deduped view holds at most one row per (postcode, address)
Deduped(rows) ==
    \A r1, r2 \in rows :
        (r1.Postcode = r2.Postcode /\ r1.Address = r2.Address) => r1 = r2

Rec(p, a, d, c) == [Postcode |-> p, Address |-> a, Descr |-> d, Cost |-> c]

RecRowPool ==
    {Rec(P1, <<"1">>, d, c) : d \in {Null, Some("d")}, c \in {Null, Some(0), Some(1), Some(2)}}
        \cup {Rec(P1, <<"1">>, Some("e"), Some(1)), Rec(P1, <<"2">>, Some("d"), Some(1))}

SubsetsUpTo(S, n) == {T \in SUBSET S : Cardinality(T) <= n}

-----------------------------------------------------------------------------
(* SQL evaluation *)

QueryOk(rows) == [rows |-> rows, ok |-> TRUE]
QueryError(msg) == [ok |-> FALSE, error |-> msg]

IOError == "IO Error: could not read from the database file"
ConversionError == "Conversion Error: could not convert string to INT32"

\* largest value of the SQL type INTEGER (INT32)
IntMax == 2147483647

\* all orderings of a finite set
RECURSIVE Perms(_)
Perms(S) ==
    IF S = {} THEN {<<>>}
    ELSE UNION {{<<x>> \o p : p \in Perms(S \ {x})} : x \in S}

\* binary string comparison s < t
RECURSIVE LexLess(_, _)
LexLess(s, t) ==
    IF t = <<>> THEN FALSE
    ELSE IF s = <<>> THEN TRUE
    ELSE IF Head(s) = Head(t) THEN LexLess(Tail(s), Tail(t))
    ELSE Ord(Head(s)) < Ord(Head(t))

\* REGEXP_EXTRACT(s, '^([0-9]+)', 1): the leading digit run, the empty
\* string when the pattern does not match
RECURSIVE RegexpExtract(_)
RegexpExtract(s) ==
    IF s # <<>> /\ Head(s) \in Digits
    THEN <<Head(s)>> \o RegexpExtract(Tail(s))
    ELSE <<>>

RECURSIVE DigitsValue(_)
DigitsValue(d) ==
    IF d = <<>> THEN 0
    ELSE 10 * DigitsValue(SubSeq(d, 1, Len(d) - 1)) + (Ord(d[Len(d)]) - 48)

\* CAST(d AS INTEGER) of a string column: a conversion error unless d is a
\* digit string within INT32
CastFails(d) == d = <<>> \/ DigitsValue(d) > IntMax

CastInteger(d) == Some(DigitsValue(d))

\* the first ORDER BY expression of the search query
AddressKey(a) == CastInteger(RegexpExtract(a))

\* ORDER BY k NULLS LAST, Address
SearchLess(r1, r2) ==
    LET k1 == AddressKey(r1.Address)
        k2 == AddressKey(r2.Address)
    IN  IF k1 = Null /\ k2 = Null THEN LexLess(r1.Address, r2.Address)
        ELSE IF k1 = Null THEN FALSE
        ELSE IF k2 = Null THEN TRUE
        ELSE IF k1[1] = k2[1] THEN LexLess(r1.Address, r2.Address)
        ELSE k1[1] < k2[1]

SearchWhere(r, postcode) == r.Postcode = postcode

\* SELECT Address FROM certificates_deduped WHERE Postcode = ? ORDER BY ...
SearchQuery(postcode) ==
    LET hit == {r \in certs : SearchWhere(r, postcode)}
    IN  IF \E r \in hit : CastFails(RegexpExtract(r.Address))
        THEN {QueryError(ConversionError)}
        ELSE {QueryOk([i \in 1..Len(p) |-> <<p[i].Address>>]) :
                p \in {q \in Perms(hit) :
                        \A i, j \in 1..Len(q) : i < j => ~SearchLess(q[j], q[i])}}

RatingWherePostcodeOnly(r, postcode, address) == r.Postcode = postcode

RatingWhere(r, postcode, address) == r.Postcode = postcode /\ r.Address = address

\* SELECT <the five columns> FROM certificates_deduped WHERE POSTCODE = ? AND ADDRESS = ?
RatingQuery(postcode, address) ==
    LET hit == {r \in certs : RatingWhere(r, postcode, address)}
    IN  {QueryOk([i \in 1..Len(p) |-> p[i].Cols]) : p \in Perms(hit)}

RecWhereAnyDescr(r, postcode, address) ==
    r.Postcode = postcode /\ r.Address = address

RecWhere(r, postcode, address) ==
    r.Postcode = postcode /\ r.Address = address /\ r.Descr # Null

\* ORDER BY Indicative_Cost: ascending, NULLs where default_null_order puts them
CostBefore(c1, c2) ==
    IF c1 = Null /\ c2 = Null THEN FALSE
    ELSE IF c1 = Null THEN nullOrder = "NULLS_FIRST"
    ELSE IF c2 = Null THEN nullOrder = "NULLS_LAST"
    ELSE c1[1] < c2[1]

RecUnordered(q) == TRUE

\* q is a possible output order of ORDER BY Indicative_Cost (ties in any order)
RecOrdered(q) == \A i, j \in 1..Len(q) : i < j => ~CostBefore(q[j].Cost, q[i].Cost)

\* SELECT Improvement_DESCR_TEXT, Indicative_Cost FROM ..._recommendations WHERE ...
RecQuery(postcode, address) ==
    LET hit == {r \in recs : RecWhere(r, postcode, address)}
    IN  {QueryOk([i \in 1..Len(p) |-> <<p[i].Descr, p[i].Cost>>]) :
            p \in {q \in Perms(hit) : RecOrdered(q)}}

\* SELECT 1
HealthQuery == {QueryOk(<< <<Some(1)>> >>)}

\* conn.execute(q): the possible results; raises when the store cannot be read
Execute(results) == IF reachable THEN results ELSE {QueryError(IOError)}

\* result.fetchone()
FetchOne(rows) == IF rows = <<>> THEN Null ELSE Some(Head(rows))

-----------------------------------------------------------------------------
(* Requests and responses *)

\* request.args: each parameter absent (Null) or present with a string value
Args(p, a) == [postcode |-> p, address |-> a]

\* request.args.get(name, '')
ArgsGet(args, name) == IF args[name] = Null THEN <<>> ELSE args[name][1]

\* Python `not s` for a str
PyNotNone(s) == FALSE

PyNot(s) == s = <<>>

\* Python truthiness of a fetched row (None or a tuple)
RowTruthy(row) == row # Null /\ Len(row[1]) > 0

\* Python truthiness of an Optional number
CostTruthy(c) == c # Null /\ c[1] # 0

\* str(e)
Str(e) == e

\* jsonify(body), status
Resp(status, body) == [status |-> status, body |-> body, raised |-> FALSE]

\* an exception that leaves the handler
Raised(e) == [status |-> 500, body |-> [error |-> e], raised |-> TRUE]

CostNotAvailable == "Cost not available"

JNumber(n) == [kind |-> "number", val |-> n]
JString(t) == [kind |-> "string", val |-> t]

\* row[1] if row[1] else 'Cost not available'
RenderCost(c) == IF CostTruthy(c) THEN JNumber(c[1]) ELSE JString(CostNotAvailable)

\* the list comprehension over rec_results
Recommendations(rows) ==
    [i \in 1..Len(rows) |->
        [description |-> rows[i][1], cost |-> RenderCost(rows[i][2])]]

Outcome(resp, log, rows) == [response |-> resp, queryLog |-> log, recRows |-> rows]

\* search_addresses, run alone
SearchOutcomes(args) ==
    LET postcode == NormalizePostcode(ArgsGet(args, "postcode"))
    IN  IF PyNot(postcode)
        THEN {Outcome(Resp(400, [error |-> "Postcode is required"]), <<>>, <<>>)}
        ELSE {IF r.ok
              THEN Outcome(Resp(200, [postcode |-> postcode,
                                      addresses |-> [i \in 1..Len(r.rows) |-> r.rows[i][1]],
                                      count |-> Len(r.rows)]),
                           <<"search">>, <<>>)
              ELSE Outcome(Resp(500, [error |-> Str(r.error)]), <<"search">>, <<>>)
              : r \in Execute(SearchQuery(postcode))}

RatingBody(postcode, address, result, recommendations) ==
    [postcode |-> postcode, address |-> address,
     recommendations |-> recommendations,
     rating |-> result[1], potential_rating |-> result[2],
     current_efficiency |-> result[3], potential_efficiency |-> result[4],
     lodgement_date |-> result[5]]

\* the part of get_rating after the first fetchone()
RatingAfterFetch(postcode, address, result) ==
    IF ~RowTruthy(result)
    THEN {Outcome(Resp(404, [error |-> "No rating found for this address"]),
                  <<"rating">>, <<>>)}
    ELSE {IF q.ok
          THEN Outcome(Resp(200, RatingBody(postcode, address, result[1],
                                            Recommendations(q.rows))),
                       <<"rating", "recommendations">>, q.rows)
          ELSE Outcome(Resp(500, [error |-> Str(q.error)]),
                       <<"rating", "recommendations">>, <<>>)
          : q \in Execute(RecQuery(postcode, address))}

\* get_rating, run alone
RatingOutcomes(args) ==
    LET postcode == NormalizePostcode(ArgsGet(args, "postcode"))
        address == Strip(ArgsGet(args, "address"))
    IN  IF PyNot(postcode) \/ PyNot(address)
        THEN {Outcome(Resp(400, [error |-> "Both postcode and address are required"]),
                      <<>>, <<>>)}
        ELSE UNION {IF r.ok
                    THEN RatingAfterFetch(postcode, address, FetchOne(r.rows))
                    ELSE {Outcome(Resp(500, [error |-> Str(r.error)]), <<"rating">>, <<>>)}
                    : r \in Execute(RatingQuery(postcode, address))}

HealthyBody == [status |-> "healthy", database |-> "connected"]

HealthResponseNoExcept(r) ==
    IF r.ok THEN Resp(200, HealthyBody) ELSE Raised(r.error)

\* the try/except of health_check around the round trip r
HealthResponse(r) ==
    IF r.ok
    THEN Resp(200, HealthyBody)
    ELSE Resp(500, [status |-> "unhealthy", error |-> Str(r.error)])

\* health_check, run alone
HealthOutcomes ==
    {Outcome(HealthResponse(r), <<"health">>, <<>>) : r \in Execute(HealthQuery)}

-----------------------------------------------------------------------------
(* The service handling one request at a time *)

S(t) == Some(t)

SearchArgs ==
    {Args(p, Null) :
        p \in {Null, S(<<>>), S(<<" ">>), S(<<"\t", " ">>), S(<<"a", "1">>),
               S(<<" ", "A", " ", "1", " ">>), S(<<"b", "1">>), S(<<"A", "\t", "1">>)}}

RatingArgs ==
    {Args(p, a) :
        p \in {Null, S(<<" ">>), S(<<"a", " ", "1">>), S(<<"b", "1">>)},
        a \in {Null, S(<<" ", "\t">>), S(<<"1">>), S(<<" ", "1", " ">>), S(<<"2">>)}}

InitStoreSettings ==
    /\ nullOrder \in {"NULLS_FIRST", "NULLS_LAST"}
    /\ reachable \in BOOLEAN

\* stores that vary the certificates relation
InitSearch ==
    /\ certs \in {c \in SubsetsUpTo(CertRowPool, MaxCerts) : Deduped(c)}
    /\ recs = {}
    /\ InitStoreSettings
    /\ IdleSeq /\ IdleNorm /\ IdleConc

\* stores that vary the recommendations relation
InitRating ==
    /\ certs \in {c \in SUBSET RatingCertPool : Deduped(c)}
    /\ recs \in SubsetsUpTo(RecRowPool, MaxRecs)
    /\ InitStoreSettings
    /\ IdleSeq /\ IdleNorm /\ IdleConc

Serve(req, o) ==
    /\ request = NoRequest
    /\ request' = req
    /\ response' = o.response
    /\ queryLog' = o.queryLog
    /\ recRows' = o.recRows
    /\ UNCHANGED <<storeVars, normVars, concVars>>

SearchAddresses ==
    \E args \in SearchArgs : \E o \in SearchOutcomes(args) :
        Serve([op |-> "search", args |-> args], o)

GetRating ==
    \E args \in RatingArgs : \E o \in RatingOutcomes(args) :
        Serve([op |-> "rating", args |-> args], o)

HealthCheck ==
    \E o \in HealthOutcomes : Serve([op |-> "health", args |-> Args(Null, Null)], o)

\* the transport sends the response; the worker takes the next request
Deliver ==
    /\ request # NoRequest
    /\ request' = NoRequest
    /\ response' = NoResponse
    /\ queryLog' = <<>>
    /\ recRows' = <<>>
    /\ UNCHANGED <<storeVars, normVars, concVars>>

Next == SearchAddresses \/ GetRating \/ HealthCheck \/ Deliver

SpecSearch == InitSearch /\ [][Next]_vars

SpecRating == InitRating /\ [][Next]_vars

-----------------------------------------------------------------------------
(* Properties of the normalisation (SpecNorm) *)

IsNotWhitespace(c) == c \notin Whitespace

IsBlank(t) == \A i \in 1..Len(t) : t[i] \in Whitespace

\* C5: the normalised postcode is the upper-cased input with every whitespace
\* character removed, so the key never contains a whitespace character.
C5_KeyHasNoWhitespace ==
    phase = "out" =>
        /\ \A i \in 1..Len(key) : key[i] \notin Whitespace
        /\ key = SelectSeq(Upper(raw), IsNotWhitespace)

\* C7: normalisation is idempotent: normalising a normalised key (a response's
\* 'postcode' sent back as a query) gives the same key.
C7_NormalizeIdempotent ==
    phase = "out" => NormalizePostcode(key) = key

\* a raw postcode that normalisation changed into a non-empty key
C7_Witness ==
    /\ phase = "out"
    /\ raw = <<" ", "a", " ", "1">>
    /\ key = <<"A", "1">>

-----------------------------------------------------------------------------
(* Properties of search_addresses (SpecSearch) *)

IsSearch == request # NoRequest /\ request.op = "search"

\* the leading digit run of an address as an optional integer
LeadingNumber(a) ==
    IF a # <<>> /\ Head(a) \in Digits THEN Some(DigitsValue(RegexpExtract(a))) ELSE Null

\* a may not come after b: numeric prefixes first and ascending, the rest
\* last, the full string as tie-break
ComesBefore(a, b) ==
    LET x == LeadingNumber(a)
        y == LeadingNumber(b)
    IN  IF x # Null /\ y # Null
        THEN x[1] < y[1] \/ (x[1] = y[1] /\ LexLess(a, b))
        ELSE IF x = Null /\ y = Null THEN LexLess(a, b)
        ELSE x # Null

\* C2: search returns the stored addresses of the postcode with the
\* numeric-prefixed ones first in ascending numeric order, the others after
\* them in lexicographic order, ties broken by the full address.
C2_SearchOrdering ==
    (IsSearch /\ reachable /\ NormalizePostcode(ArgsGet(request.args, "postcode")) # <<>>) =>
        LET stored == {r.Address : r \in {c \in certs :
                        c.Postcode = NormalizePostcode(ArgsGet(request.args, "postcode"))}}
        IN  /\ response.status = 200
            /\ Len(response.body.addresses) = Cardinality(stored)
            /\ {response.body.addresses[i] : i \in 1..Len(response.body.addresses)} = stored
            /\ \A i, j \in 1..Len(response.body.addresses) :
                  i < j => ComesBefore(response.body.addresses[i], response.body.addresses[j])

\* C3: a search whose postcode is missing, empty or only whitespace answers
\* 400 and executes no query.
C3_BlankPostcodeNoQuery ==
    (IsSearch /\ IsBlank(ArgsGet(request.args, "postcode"))) =>
        /\ response.status = 400
        /\ queryLog = <<>>

\* a whitespace-only postcode was rejected
C3_Witness ==
    /\ IsSearch
    /\ request.args.postcode = Some(<<"\t", " ">>)
    /\ response.status = 400
    /\ certs # {}

-----------------------------------------------------------------------------
(* Properties of get_rating and health_check (SpecRating) *)

IsRating == request # NoRequest /\ request.op = "rating"
IsHealth == request # NoRequest /\ request.op = "health"

RatingOk == IsRating /\ response.status = 200

ReqPostcode == NormalizePostcode(ArgsGet(request.args, "postcode"))
ReqAddress == Strip(ArgsGet(request.args, "address"))

\* C1: against a reachable store a rating lookup answers 400 iff a normalised
\* field is empty, 404 iff both are non-empty and no row matches the exact
\* pair, and otherwise 200 with the one record built from the matching row.
C1_RatingOutcome ==
    (IsRating /\ reachable) =>
        LET match == {r \in certs : r.Postcode = ReqPostcode /\ r.Address = ReqAddress}
        IN  IF ReqPostcode = <<>> \/ ReqAddress = <<>>
            THEN response.status = 400
            ELSE IF match = {}
            THEN response.status = 404
            ELSE /\ response.status = 200
                 /\ response.body.postcode = ReqPostcode
                 /\ response.body.address = ReqAddress
                 /\ \E r \in match :
                      <<response.body.rating, response.body.potential_rating,
                        response.body.current_efficiency,
                        response.body.potential_efficiency,
                        response.body.lodgement_date>> = r.Cols

\* an existing pair whose columns are all NULL is a success, and the pair was
\* matched after normalising both parameters
C1_Witness ==
    /\ RatingOk
    /\ request.args = Args(Some(<<"a", " ", "1">>), Some(<<" ", "1", " ">>))
    /\ response.body.rating = Null
    /\ Cardinality(certs) = 2

\* C4: a recommendation's rendered cost is the sentinel string iff the stored
\* cost is NULL; every numeric cost, zero included, is rendered unchanged.
C4_CostRendering ==
    RatingOk =>
        \A i \in 1..Len(recRows) :
            LET stored == recRows[i][2]
                shown == response.body.recommendations[i].cost
            IN  IF stored = Null
                THEN shown.kind = "string" /\ shown.val = CostNotAvailable
                ELSE shown.kind = "number" /\ shown.val = stored[1]

\* C6: a successful rating response surfaces no recommendation row with a NULL
\* description and every row of the same key with a non-NULL description.
C6_NullDescriptionsExcluded ==
    RatingOk =>
        LET surfaced == {r \in recs : /\ r.Postcode = ReqPostcode
                                      /\ r.Address = ReqAddress
                                      /\ r.Descr # Null}
            list == response.body.recommendations
        IN  /\ Len(list) = Cardinality(surfaced)
            /\ Len(recRows) = Len(list)
            /\ {recRows[i] : i \in 1..Len(recRows)} = {<<r.Descr, r.Cost>> : r \in surfaced}
            /\ \A i \in 1..Len(list) :
                  list[i].description # Null /\ list[i].description = recRows[i][1]

\* a key with a NULL-description row and two surfaced rows
C6_Witness ==
    /\ RatingOk
    /\ Len(response.body.recommendations) = 2
    /\ \E r \in recs : r.Postcode = ReqPostcode /\ r.Address = ReqAddress /\ r.Descr = Null

\* C8: health_check never lets an exception escape: healthy/connected when
\* the round trip succeeds, unhealthy with a non-empty error when it fails.
C8_HealthNeverRaises ==
    IsHealth =>
        /\ ~response.raised
        /\ reachable => (response.status = 200 /\ response.body = HealthyBody)
        /\ ~reachable => /\ response.body.status = "unhealthy"
                         /\ response.body.error # ""

\* the round trip failed and was reported
C8_Witness ==
    /\ IsHealth
    /\ ~reachable
    /\ response.status = 500
    /\ response.body.status = "unhealthy"

IsNumber(j) == j.kind = "number"

\* C9 as stated: after rendering, every 'Cost not available' entry precedes
\* every numeric entry and the numeric costs are non-decreasing.
C9_NullsFirstRendered ==
    RatingOk =>
        \A i, j \in 1..Len(response.body.recommendations) :
            LET x == response.body.recommendations[i].cost
                y == response.body.recommendations[j].cost
            IN  i < j => /\ ~(IsNumber(x) /\ ~IsNumber(y))
                         /\ (IsNumber(x) /\ IsNumber(y)) => x.val <= y.val

\* C9 amended: the rows are in ascending order of stored cost, the NULL-cost
\* rows all at the end the database's default null order puts them (last under
\* NULLS LAST, first under NULLS FIRST); rendered numeric costs are
\* non-decreasing.
C9_OrderedByStoredCost ==
    RatingOk =>
        \A i, j \in 1..Len(recRows) :
            LET x == recRows[i][2]
                y == recRows[j][2]
                u == response.body.recommendations[i].cost
                v == response.body.recommendations[j].cost
            IN  i < j =>
                  /\ (x # Null /\ y # Null) => x[1] <= y[1]
                  /\ nullOrder = "NULLS_LAST" => ~(x = Null /\ y # Null)
                  /\ nullOrder = "NULLS_FIRST" => ~(x # Null /\ y = Null)
                  /\ (IsNumber(u) /\ IsNumber(v)) => u.val <= v.val

\* a NULL cost after two ascending numeric costs
C9_Witness ==
    /\ RatingOk
    /\ nullOrder = "NULLS_LAST"
    /\ Len(recRows) = 3
    /\ recRows[1][2] = Some(1)
    /\ recRows[2][2] = Some(2)
    /\ recRows[3][2] = Null

-----------------------------------------------------------------------------
(* The service under concurrent dispatch: every handler thread calls          *)
(* conn.execute(...) and then .fetchone()/.fetchall() on the one module-level *)
(* connection.  execute() leaves its result set on the connection and returns *)
(* the connection; a fetch reads the connection's current result set.         *)

Threads == 1..MaxThreads

ConcRequests ==
    { [op |-> "search", args |-> Args(S(<<"a", "1">>), Null)],
      [op |-> "search", args |-> Args(S(<<" ">>), Null)],
      [op |-> "rating", args |-> Args(S(<<"a", " ", "1">>), S(<<"1">>))],
      [op |-> "health", args |-> Args(Null, Null)] }

NewThread(req) ==
    [response |-> NoResponse, postcode |-> <<>>, address |-> <<>>,
     result |-> Null, req |-> req, pc |-> "start", foreign |-> FALSE]

InitConc ==
    /\ certs = {Cert(P1, <<"1">>, Graded), Cert(P1, <<"2">>, Graded)}
    /\ recs = {Rec(P1, <<"1">>, Some("d"), Some(1)), Rec(P1, <<"1">>, Some("e"), Some(2))}
    /\ InitStoreSettings
    /\ IdleSeq /\ IdleNorm
    /\ conn = NoResult
    /\ threads \in [Threads -> {NewThread(r) : r \in ConcRequests}]

Finish(t, resp) ==
    threads' = [threads EXCEPT ![t].pc = "done", ![t].response = resp]

IndexError == "tuple index out of range"

\* the first query of the handler thread t runs
FirstQuery(th) ==
    CASE th.req.op = "search" -> SearchQuery(NormalizePostcode(ArgsGet(th.req.args, "postcode")))
      [] th.req.op = "rating" -> RatingQuery(NormalizePostcode(ArgsGet(th.req.args, "postcode")),
                                             Strip(ArgsGet(th.req.args, "address")))
      [] th.req.op = "health" -> HealthQuery

Invalid(th) ==
    CASE th.req.op = "search" -> PyNot(NormalizePostcode(ArgsGet(th.req.args, "postcode")))
      [] th.req.op = "rating" -> \/ PyNot(NormalizePostcode(ArgsGet(th.req.args, "postcode")))
                                 \/ PyNot(Strip(ArgsGet(th.req.args, "address")))
      [] th.req.op = "health" -> FALSE

InvalidResponse(th) ==
    IF th.req.op = "search"
    THEN Resp(400, [error |-> "Postcode is required"])
    ELSE Resp(400, [error |-> "Both postcode and address are required"])

\* the except clause of the handler of thread th
ErrorResponse(th, e) ==
    IF th.req.op = "health"
    THEN Resp(500, [status |-> "unhealthy", error |-> Str(e)])
    ELSE Resp(500, [error |-> Str(e)])

\* validation, then conn.execute(query, params)
ExecFirst(t) ==
    /\ threads[t].pc = "start"
    /\ IF Invalid(threads[t])
       THEN Finish(t, InvalidResponse(threads[t])) /\ UNCHANGED conn
       ELSE \E r \in Execute(FirstQuery(threads[t])) :
              IF r.ok
              THEN /\ conn' = [rows |-> r.rows, owner |-> t, query |-> threads[t].req.op]
                   /\ threads' = [threads EXCEPT
                         ![t].pc = "fetch1",
                         ![t].postcode =
                             NormalizePostcode(ArgsGet(threads[t].req.args, "postcode")),
                         ![t].address = Strip(ArgsGet(threads[t].req.args, "address"))]
              ELSE Finish(t, ErrorResponse(threads[t], r.error)) /\ UNCHANGED conn
    /\ UNCHANGED <<storeVars, seqVars, normVars>>

\* .fetchall() of search, .fetchone() of rating and health
FetchFirst(t) ==
    LET th == threads[t]
        alien == th.foreign \/ conn.owner # t
    IN  /\ th.pc = "fetch1"
        /\ \/ /\ th.req.op = "search"
              /\ conn' = [conn EXCEPT !.rows = <<>>]
              /\ threads' = [threads EXCEPT
                    ![t].pc = "done",
                    ![t].foreign = alien,
                    ![t].response =
                        Resp(200, [postcode |-> th.postcode,
                                   addresses |-> [i \in 1..Len(conn.rows) |-> conn.rows[i][1]],
                                   count |-> Len(conn.rows)])]
           \/ /\ th.req.op = "health"
              /\ conn' = [conn EXCEPT !.rows = IF conn.rows = <<>> THEN <<>> ELSE Tail(conn.rows)]
              /\ threads' = [threads EXCEPT
                    ![t].pc = "done",
                    ![t].foreign = alien,
                    ![t].response = Resp(200, HealthyBody)]
           \/ /\ th.req.op = "rating"
              /\ conn' = [conn EXCEPT !.rows = IF conn.rows = <<>> THEN <<>> ELSE Tail(conn.rows)]
              /\ IF RowTruthy(FetchOne(conn.rows))
                 THEN threads' = [threads EXCEPT
                        ![t].pc = "exec2",
                        ![t].foreign = alien,
                        ![t].result = FetchOne(conn.rows)]
                 ELSE threads' = [threads EXCEPT
                        ![t].pc = "done",
                        ![t].foreign = alien,
                        ![t].response =
                            Resp(404, [error |-> "No rating found for this address"])]
        /\ UNCHANGED <<storeVars, seqVars, normVars>>

\* conn.execute(rec_query, params) of rating
ExecSecond(t) ==
    /\ threads[t].pc = "exec2"
    /\ \E r \in Execute(RecQuery(threads[t].postcode, threads[t].address)) :
          IF r.ok
          THEN /\ conn' = [rows |-> r.rows, owner |-> t, query |-> "recommendations"]
               /\ threads' = [threads EXCEPT ![t].pc = "fetch2"]
          ELSE Finish(t, ErrorResponse(threads[t], r.error)) /\ UNCHANGED conn
    /\ UNCHANGED <<storeVars, seqVars, normVars>>

\* the list comprehension over rows of the rating query's columns: row[1] is
\* POTENTIAL_ENERGY_RATING, a string, truthy unless NULL (or empty)
RecommendationsOfRatingRows(rows) ==
    [i \in 1..Len(rows) |->
        [description |-> rows[i][1],
         cost |-> IF rows[i][2] = Null \/ rows[i][2][1] = ""
                  THEN JString(CostNotAvailable)
                  ELSE JString(rows[i][2][1])]]

\* .fetchall() of rating, the list comprehension and the response; a row or a
\* result tuple with too few columns raises IndexError inside the try
FetchSecond(t) ==
    LET th == threads[t]
        rows == conn.rows
        list == IF conn.query = "rating"
                THEN RecommendationsOfRatingRows(rows)
                ELSE Recommendations(rows)
        fits == /\ \A i \in 1..Len(rows) : Len(rows[i]) >= 2
                /\ Len(th.result[1]) >= 5
    IN  /\ th.pc = "fetch2"
        /\ conn' = [conn EXCEPT !.rows = <<>>]
        /\ threads' = [threads EXCEPT
              ![t].pc = "done",
              ![t].foreign = th.foreign \/ conn.owner # t,
              ![t].response =
                  IF fits
                  THEN Resp(200, RatingBody(th.postcode, th.address, th.result[1], list))
                  ELSE Resp(500, [error |-> Str(IndexError)])]
        /\ UNCHANGED <<storeVars, seqVars, normVars>>

NextConc ==
    \E t \in Threads : ExecFirst(t) \/ FetchFirst(t) \/ ExecSecond(t) \/ FetchSecond(t)

SpecConc == InitConc /\ [][NextConc]_vars

\* the responses the request gives when it runs alone on the same store
SoloResponses(req) ==
    {o.response : o \in CASE req.op = "search" -> SearchOutcomes(req.args)
                          [] req.op = "rating" -> RatingOutcomes(req.args)
                          [] req.op = "health" -> HealthOutcomes}

\* C10: under concurrent dispatch on the shared connection every request is
\* independent: it never fetches rows produced by another request's query and
\* its response is one it gives when run alone on the same store.
C10_RequestsIndependent ==
    \A t \in DOMAIN threads :
        threads[t].pc = "done" =>
            /\ ~threads[t].foreign
            /\ threads[t].response \in SoloResponses(threads[t].req)

====
